---- MODULE Spec2Model ----
(***************************************************************************)
(* Model of the Skia renderer backend of orbitui                           *)
(* (src/src/renderer/skia.rs): the optional renderer state, the            *)
(* initialization protocol, the transform stack, the draw calls and the    *)
(* Renderer trait implementation (init, render, flush, cleanup).           *)
(*                                                                         *)
(* Option<T> is modelled as a sequence of length at most one: None is <<>> *)
(* and Some(x) is <<x>>.  Result<(), E> is modelled the same way: Ok(())   *)
(* is <<>> and Err(e) is <<e>>.  An M44 is a 4x4 matrix, a tuple of four   *)
(* rows; the entries used are small integers, for which f32 arithmetic is  *)
(* exact.                                                                  *)
(***************************************************************************)
EXTENDS Integers, Sequences, FiniteSets, TLC

(* ------------------------------------------------------------------------ *)
(* Bounds of the model                                                      *)
(* ------------------------------------------------------------------------ *)

\* Largest transform-stack depth explored (the code has no maximum).
MaxDepth == 3

\* Largest number of messages sent to the rendering thread.
MaxSent == 6

(* ------------------------------------------------------------------------ *)
(* Program constants                                                        *)
(* ------------------------------------------------------------------------ *)

DefaultWidth == 800
DefaultHeight == 600
SamplesPerPixel == 1
StencilBits == 8
DefaultFboid == 0
\* 0x8058, GL_RGBA8
GlRgba8 == 32856

(* ------------------------------------------------------------------------ *)
(* Option and Result                                                        *)
(* ------------------------------------------------------------------------ *)

None == <<>>
Some(x) == <<x>>
IsSome(o) == o # <<>>
IsNone(o) == o = <<>>
Unwrap(o) == o[1]

Ok == <<>>
Err(e) == <<e>>
IsOk(r) == r = <<>>
IsErr(r) == r # <<>>

(* ------------------------------------------------------------------------ *)
(* Errors                                                                   *)
(* ------------------------------------------------------------------------ *)

SkiaError(msg) == [kind |-> "SkiaError", msg |-> msg]
GlError(msg) == [kind |-> "GlError", msg |-> msg]
InitError(msg) == [kind |-> "InitError", msg |-> msg]
GeneralError(msg) == [kind |-> "GeneralError", msg |-> msg]

\* impl fmt::Display for RendererError
Display(e) ==
    CASE e.kind = "SkiaError" -> "Skia error: " \o e.msg
      [] e.kind = "GlError" -> "OpenGL error: " \o e.msg
      [] e.kind = "InitError" -> "Initialization error: " \o e.msg
      [] e.kind = "GeneralError" -> "Renderer error: " \o e.msg

\* crate::Error::Renderer(String)
CrateRendererError(msg) == [kind |-> "Renderer", msg |-> msg]

\* .map_err(|e| crate::Error::Renderer(format!("{e}")))
map_err(r) == IF IsOk(r) THEN Ok ELSE Err(CrateRendererError(Display(Unwrap(r))))

(* ------------------------------------------------------------------------ *)
(* M44                                                                      *)
(* ------------------------------------------------------------------------ *)

\* M44::new_identity()
new_identity ==
    << <<1, 0, 0, 0>>,
       <<0, 1, 0, 0>>,
       <<0, 0, 1, 0>>,
       <<0, 0, 0, 1>> >>

\* The matrix product a * b.
MatMul(a, b) ==
    [i \in 1..4 |-> [j \in 1..4 |->
        a[i][1] * b[1][j] + a[i][2] * b[2][j] + a[i][3] * b[3][j] + a[i][4] * b[4][j]]]

post_concat(this, m) == MatMul(m, this)

\* M44::pre_concat(&mut self, m): self = self * m
pre_concat(this, m) == MatMul(this, m)

\* Transforms a caller pushes: a translation by (1, 0, 0) and a uniform
\* scale by 2.  They do not commute.
TranslateX ==
    << <<1, 0, 0, 1>>,
       <<0, 1, 0, 0>>,
       <<0, 0, 1, 0>>,
       <<0, 0, 0, 1>> >>

Scale2 ==
    << <<2, 0, 0, 0>>,
       <<0, 2, 0, 0>>,
       <<0, 0, 2, 0>>,
       <<0, 0, 0, 1>> >>

Transforms == {TranslateX, Scale2}

(* ------------------------------------------------------------------------ *)
(* Inputs                                                                   *)
(* ------------------------------------------------------------------------ *)

\* (width, height) arguments of init_skia: the default, another positive
\* pair, a zero width and a negative height (both are i32).
Dims == {<<800, 600>>, <<640, 480>>, <<0, 480>>, <<640, -1>>}

\* What the graphics platform does on this call: whether
\* Interface::new_native, DirectContext::new_gl and
\* Surface::from_backend_render_target return Some.
Platforms == [gl_interface : BOOLEAN, gpu_context : BOOLEAN, surface : BOOLEAN]

NoPlatform == [gl_interface |-> FALSE, gpu_context |-> FALSE, surface |-> FALSE]

\* time arguments of draw_animated_circle
Times == {0, 2}

Last(s) == s[Len(s)]
Front(s) == SubSeq(s, 1, Len(s) - 1)
Min(a, b) == IF a <= b THEN a ELSE b

(* ------------------------------------------------------------------------ *)
(* State                                                                    *)
(* ------------------------------------------------------------------------ *)

VARIABLES
    state,      \* SkiaRenderer.state : Option<SkiaState>
    call,       \* the last call made on the renderer and what it returned
    pre,        \* self.state as it was when the last call was entered
    frames,     \* the pushes not yet matched by a pop since the state was created
    discarded,  \* what the last cleanup dropped
    ignored,    \* a transform was pushed while the state was absent
    queue,      \* RendererMessages sent to the rendering thread, not yet taken
    sent,       \* the number of messages sent so far
    handled,    \* the messages the rendering thread has processed, in order
    running     \* the rendering thread has not yet processed Shutdown

\* The variables of the message protocol.
mvars == <<queue, sent, handled, running>>

vars == <<state, call, pre, frames, discarded, ignored, queue, sent, handled, running>>

\* The canvas of a surface: the background and the circles drawn on it.
BlankCanvas == [background |-> "unset", circles |-> {}]

\* SkiaState, as init_skia builds it.
SkiaState(width, height) ==
    [gr_context |-> [interface |-> "native_gl"],
     surface |-> [width |-> width, height |-> height,
                  samples |-> SamplesPerPixel, stencil |-> StencilBits,
                  fboid |-> DefaultFboid, format |-> GlRgba8,
                  origin |-> "BottomLeft", color_type |-> "RGBA8888",
                  canvas |-> BlankCanvas],
     transform_stack |-> <<new_identity>>,
     width |-> width,
     height |-> height]

\* SkiaRenderer::new()
new == None

(* ------------------------------------------------------------------------ *)
(* Operations.  Each takes self.state and the arguments and gives the new   *)
(* self.state, the returned result and the initialization steps attempted.  *)
(* ------------------------------------------------------------------------ *)

Outcome(s, r, st) == [state |-> s, result |-> r, steps |-> st]

AllSteps == <<"interface", "context", "framebuffer_info", "render_target", "surface">>

init_skia_keep_stack(self, width, height, p) ==
    IF ~p.gl_interface
    THEN Outcome(self, Err(GlError("Failed to create GL interface")), SubSeq(AllSteps, 1, 1))
    ELSE IF ~p.gpu_context
    THEN Outcome(self, Err(SkiaError("Failed to create GPU context")), SubSeq(AllSteps, 1, 2))
    ELSE IF ~p.surface
    THEN Outcome(self, Err(SkiaError("Failed to create surface")), AllSteps)
    ELSE IF IsSome(self)
    THEN Outcome(Some([SkiaState(width, height) EXCEPT
                          !.transform_stack = Unwrap(self).transform_stack]),
                 Ok, AllSteps)
    ELSE Outcome(Some(SkiaState(width, height)), Ok, AllSteps)

init_skia_reset_first(self, width, height, p) ==
    IF ~p.gl_interface
    THEN Outcome(None, Err(GlError("Failed to create GL interface")), SubSeq(AllSteps, 1, 1))
    ELSE IF ~p.gpu_context
    THEN Outcome(None, Err(SkiaError("Failed to create GPU context")), SubSeq(AllSteps, 1, 2))
    ELSE IF ~p.surface
    THEN Outcome(None, Err(SkiaError("Failed to create surface")), AllSteps)
    ELSE Outcome(Some(SkiaState(width, height)), Ok, AllSteps)

init_skia_late_check(self, width, height, p) ==
    IF ~p.gpu_context
    THEN Outcome(self, Err(SkiaError("Failed to create GPU context")), SubSeq(AllSteps, 1, 2))
    ELSE IF ~p.gl_interface
    THEN Outcome(self, Err(GlError("Failed to create GL interface")), SubSeq(AllSteps, 1, 2))
    ELSE IF ~p.surface
    THEN Outcome(self, Err(SkiaError("Failed to create surface")), AllSteps)
    ELSE Outcome(Some(SkiaState(width, height)), Ok, AllSteps)

\* SkiaRenderer::init_skia
init_skia(self, width, height, p) ==
    IF ~p.gl_interface
    THEN Outcome(self, Err(GlError("Failed to create GL interface")), SubSeq(AllSteps, 1, 1))
    ELSE IF ~p.gpu_context
    THEN Outcome(self, Err(SkiaError("Failed to create GPU context")), SubSeq(AllSteps, 1, 2))
    ELSE IF ~p.surface
    THEN Outcome(self, Err(SkiaError("Failed to create surface")), AllSteps)
    ELSE Outcome(Some(SkiaState(width, height)), Ok, AllSteps)

push_transform_lazy_init(self, transform) ==
    LET s0 == IF IsSome(self) THEN self ELSE Some(SkiaState(DefaultWidth, DefaultHeight))
        st == Unwrap(s0)
        combined == pre_concat(Last(st.transform_stack), transform)
    IN  Some([st EXCEPT !.transform_stack = Append(st.transform_stack, combined)])

\* SkiaRenderer::push_transform
push_transform(self, transform) ==
    IF IsSome(self)
    THEN LET st == Unwrap(self)
             current == IF st.transform_stack # <<>>
                        THEN Last(st.transform_stack) ELSE new_identity
             combined == pre_concat(current, transform)
         IN  Some([st EXCEPT !.transform_stack = Append(st.transform_stack, combined)])
    ELSE self

pop_transform_unguarded(self) ==
    IF IsSome(self)
    THEN LET st == Unwrap(self)
         IN  IF Len(st.transform_stack) > 0
             THEN Some([st EXCEPT !.transform_stack = Front(st.transform_stack)])
             ELSE self
    ELSE self

pop_transform_to_base(self) ==
    IF IsSome(self)
    THEN LET st == Unwrap(self)
         IN  IF Len(st.transform_stack) > 1
             THEN Some([st EXCEPT !.transform_stack = SubSeq(st.transform_stack, 1, 1)])
             ELSE self
    ELSE self

pop_transform_late_guard(self) ==
    IF IsSome(self)
    THEN LET st == Unwrap(self)
         IN  IF Len(st.transform_stack) > 2
             THEN Some([st EXCEPT !.transform_stack = Front(st.transform_stack)])
             ELSE self
    ELSE self

\* SkiaRenderer::pop_transform
pop_transform(self) ==
    IF IsSome(self)
    THEN LET st == Unwrap(self)
         IN  IF Len(st.transform_stack) > 1
             THEN Some([st EXCEPT !.transform_stack = Front(st.transform_stack)])
             ELSE self
    ELSE self

current_transform_base(self) ==
    IF IsSome(self) /\ Unwrap(self).transform_stack # <<>>
    THEN Head(Unwrap(self).transform_stack)
    ELSE new_identity

\* SkiaRenderer::current_transform
current_transform(self) ==
    IF IsSome(self) /\ Unwrap(self).transform_stack # <<>>
    THEN Last(Unwrap(self).transform_stack)
    ELSE new_identity

\* The circle draw_test_circle paints: centre (width / 2, height / 2) and
\* radius min(width, height) / 4, kept as exact multiples of a quarter, in
\* the paint Color4f(0.3, 0.5, 0.8, 1.0), kept in tenths.
TestCircle(width, height) ==
    [cx_x4 |-> 2 * width, cy_x4 |-> 2 * height, r_x4 |-> Min(width, height),
     paint |-> <<"Color4f_x10", 3, 5, 8, 10>>]

draw_test_circle_lazy_init(self) ==
    LET s0 == IF IsNone(self) THEN Some(SkiaState(DefaultWidth, DefaultHeight)) ELSE self
        st == Unwrap(s0)
        canvas == st.surface.canvas
        drawn == [canvas EXCEPT !.circles = @ \cup {TestCircle(st.width, st.height)}]
    IN  Outcome(Some([st EXCEPT !.surface.canvas = drawn]), Ok, <<>>)

\* SkiaRenderer::draw_test_circle
draw_test_circle(self) ==
    IF IsNone(self)
    THEN Outcome(self, Err(GeneralError("Renderer not initialized")), <<>>)
    ELSE LET st == Unwrap(self)
             canvas == st.surface.canvas
             drawn == [canvas EXCEPT !.circles = @ \cup {TestCircle(st.width, st.height)}]
         IN  Outcome(Some([st EXCEPT !.surface.canvas = drawn]), Ok, <<>>)

\* f32::sin at the arguments the model uses, in millionths.
SinMicro(x) ==
    CASE x = 0 -> 0
      [] x = 2 -> 909297
      [] x = 4 -> -756802
      [] x = 6 -> -279415

\* (c * 255.0) as u8 for c = sin(x) * 0.5 + 0.5: the cast truncates.
ChannelByte(x) == ((SinMicro(x) + 1000000) * 255) \div 2000000

\* The circle draw_animated_circle paints: centre (200, 200), radius 100,
\* colour Color::from_argb(255, r_byte, g_byte, b_byte).
AnimatedCircle(time) ==
    [cx_x4 |-> 800, cy_x4 |-> 800, r_x4 |-> 400,
     paint |-> <<"ARGB", 255, ChannelByte(time), ChannelByte(time + 2), ChannelByte(time + 4)>>]

draw_animated_circle_reset_stack(self, time) ==
    IF IsSome(self)
    THEN LET st == Unwrap(self)
             cleared == [background |-> "WHITE", circles |-> {}]
             drawn == [cleared EXCEPT !.circles = @ \cup {AnimatedCircle(time)}]
         IN  Some([st EXCEPT !.surface.canvas = drawn,
                             !.transform_stack = <<new_identity>>])
    ELSE self

\* SkiaRenderer::draw_animated_circle
draw_animated_circle(self, time) ==
    IF IsSome(self)
    THEN LET st == Unwrap(self)
             cleared == [background |-> "WHITE", circles |-> {}]
             drawn == [cleared EXCEPT !.circles = @ \cup {AnimatedCircle(time)}]
         IN  Some([st EXCEPT !.surface.canvas = drawn])
    ELSE self

init_always(self, p) ==
    LET r == init_skia(self, DefaultWidth, DefaultHeight, p)
    IN  Outcome(r.state, map_err(r.result), r.steps)

init_swallow_error(self, p) ==
    IF IsNone(self)
    THEN LET r == init_skia(self, DefaultWidth, DefaultHeight, p)
         IN  Outcome(r.state, Ok, r.steps)
    ELSE Outcome(self, Ok, <<>>)

\* <SkiaRenderer as Renderer>::init
init(self, p) ==
    IF IsNone(self)
    THEN LET r == init_skia(self, DefaultWidth, DefaultHeight, p)
         IN  Outcome(r.state, map_err(r.result), r.steps)
    ELSE Outcome(self, Ok, <<>>)

render_no_lazy_init(self, p) ==
    LET d == draw_test_circle(self)
    IN  Outcome(d.state, map_err(d.result), <<>>)

\* <SkiaRenderer as Renderer>::render; the node and the render context are
\* not read.
render(self, p) ==
    LET i == IF IsNone(self)
             THEN init_skia(self, DefaultWidth, DefaultHeight, p)
             ELSE Outcome(self, Ok, <<>>)
    IN  IF IsErr(i.result)
        THEN Outcome(i.state, map_err(i.result), i.steps)
        ELSE LET d == draw_test_circle(i.state)
             IN  Outcome(d.state, map_err(d.result), i.steps)

flush_lazy_init(self) ==
    IF IsSome(self)
    THEN Outcome(self, Ok, <<>>)
    ELSE LET r == init_skia(self, DefaultWidth, DefaultHeight,
                            [gl_interface |-> TRUE, gpu_context |-> TRUE, surface |-> TRUE])
         IN  Outcome(r.state, Ok, r.steps)

\* <SkiaRenderer as Renderer>::flush; the image snapshot is dropped at once.
flush(self) ==
    IF IsSome(self)
    THEN Outcome(self, Ok, <<>>)
    ELSE Outcome(self, Ok, <<>>)

cleanup_keep_state(self) == Outcome(self, Ok, <<>>)

\* <SkiaRenderer as Renderer>::cleanup
cleanup(self) == Outcome(None, Ok, <<>>)

\* <SkiaRenderer as Renderer>::name
name == "SkiaRenderer"

(* ------------------------------------------------------------------------ *)
(* The calls a user of the renderer makes                                   *)
(* ------------------------------------------------------------------------ *)

\* The answers of the platform that the call saw: one per fallible step it
\* attempted (interface, context, surface), in order.
Observed(p, steps) ==
    IF steps = <<>> THEN <<>>
    ELSE IF Len(steps) = 1 THEN <<p.gl_interface>>
    ELSE IF Len(steps) = 2 THEN <<p.gl_interface, p.gpu_context>>
    ELSE <<p.gl_interface, p.gpu_context, p.surface>>

\* The record of a call: the operation, its arguments, what the platform
\* did, the result, the value returned by a query and the initialization
\* steps attempted.
Call(op, dims, transform, time, p, result, value, steps) ==
    [op |-> op, dims |-> dims, transform |-> transform, time |-> time,
     platform |-> Observed(p, steps), result |-> result, value |-> value, steps |-> steps]

\* What the last cleanup dropped, kept while the renderer stays absent and
\* through the call that initializes it again.
Remembered(s, d) == IF IsSome(s) THEN None ELSE d

\* What cleanup dropped: the dimensions and the stack depth.
Summary(s) ==
    IF IsSome(s)
    THEN Some([width |-> Unwrap(s).width, height |-> Unwrap(s).height,
               depth |-> Len(Unwrap(s).transform_stack)])
    ELSE None

\* Whether a push_transform made on an absent state is still to be seen
\* by the next state: set by such a push, kept while the renderer stays
\* absent and through the call that initializes it.
Ignored(op, s, i) ==
    IF IsSome(s) THEN FALSE
    ELSE IF op = "push_transform" THEN TRUE
    ELSE i

Init ==
    /\ state = new
    /\ call = Call("new", None, None, None, NoPlatform, Ok, None, <<>>)
    /\ pre = None
    /\ frames = <<>>
    /\ discarded = None
    /\ ignored = FALSE
    /\ queue = <<>>
    /\ sent = 0
    /\ handled = <<>>
    /\ running = TRUE

\* A call of init_skia(d[1], d[2]) on the renderer.
InitSkiaStep(d) ==
    \E p \in Platforms :
        LET r == init_skia(state, d[1], d[2], p)
        IN  /\ state' = r.state
            /\ call' = Call("init_skia", Some(d), None, None, p, r.result, None, r.steps)
            /\ pre' = state
            /\ frames' = IF IsOk(r.result) THEN <<>> ELSE frames
            /\ discarded' = Remembered(state, discarded)
            /\ ignored' = Ignored("init_skia", state, ignored)

\* A call of render on the renderer.
RenderStep ==
    \E p \in Platforms :
        LET r == render(state, p)
        IN  /\ state' = r.state
            /\ call' = Call("render", None, None, None, p, r.result, None, r.steps)
            /\ pre' = state
            /\ frames' = IF r.steps = AllSteps /\ IsOk(r.result) THEN <<>> ELSE frames
            /\ discarded' = Remembered(state, discarded)
            /\ ignored' = Ignored("render", state, ignored)

\* A call of flush on the renderer.
FlushStep ==
    LET r == flush(state)
    IN  /\ state' = r.state
        /\ call' = Call("flush", None, None, None, NoPlatform, r.result, None, r.steps)
        /\ pre' = state
        /\ frames' = frames
        /\ discarded' = Remembered(state, discarded)
        /\ ignored' = Ignored("flush", state, ignored)

\* A call of cleanup on the renderer.
CleanupStep ==
    LET r == cleanup(state)
    IN  /\ state' = r.state
        /\ call' = Call("cleanup", None, None, None, NoPlatform, r.result, None, r.steps)
        /\ pre' = state
        /\ frames' = <<>>
        /\ discarded' = Summary(state)
        /\ ignored' = Ignored("cleanup", state, ignored)

CallInitSkia ==
    /\ \E d \in Dims : InitSkiaStep(d)
    /\ UNCHANGED mvars

CallInit ==
    /\ \E p \in Platforms :
        LET r == init(state, p)
        IN  /\ state' = r.state
            /\ call' = Call("init", None, None, None, p, r.result, None, r.steps)
            /\ pre' = state
            /\ frames' = IF r.steps = AllSteps /\ IsOk(r.result) THEN <<>> ELSE frames
            /\ discarded' = Remembered(state, discarded)
            /\ ignored' = Ignored("init", state, ignored)
    /\ UNCHANGED mvars

CallRender ==
    /\ RenderStep
    /\ UNCHANGED mvars

CallFlush ==
    /\ FlushStep
    /\ UNCHANGED mvars

CallCleanup ==
    /\ CleanupStep
    /\ UNCHANGED mvars

CallPushTransform ==
    /\ \E t \in Transforms :
        /\ IsSome(state) => Len(Unwrap(state).transform_stack) < MaxDepth
        /\ state' = push_transform(state, t)
        /\ call' = Call("push_transform", None, Some(t), None, NoPlatform, Ok, None, <<>>)
        /\ pre' = state
        /\ frames' = IF IsSome(state)
                     THEN Append(frames, [t |-> t, before |-> Unwrap(state).transform_stack])
                     ELSE frames
        /\ discarded' = Remembered(state, discarded)
        /\ ignored' = Ignored("push_transform", state, ignored)
    /\ UNCHANGED mvars

CallPopTransform ==
    /\ state' = pop_transform(state)
    /\ call' = Call("pop_transform", None, None, None, NoPlatform, Ok, None, <<>>)
    /\ pre' = state
    /\ frames' = IF frames # <<>> THEN Front(frames) ELSE frames
    /\ discarded' = Remembered(state, discarded)
    /\ ignored' = Ignored("pop_transform", state, ignored)
    /\ UNCHANGED mvars

CallCurrentTransform ==
    /\ call' = Call("current_transform", None, None, None, NoPlatform, Ok,
                    Some(current_transform(state)), <<>>)
    /\ pre' = state
    /\ UNCHANGED <<state, frames>>
    /\ discarded' = Remembered(state, discarded)
    /\ ignored' = Ignored("current_transform", state, ignored)
    /\ UNCHANGED mvars

CallDrawTestCircle ==
    /\ LET r == draw_test_circle(state)
       IN  /\ state' = r.state
           /\ call' = Call("draw_test_circle", None, None, None, NoPlatform, r.result, None, r.steps)
           /\ pre' = state
           /\ frames' = frames
           /\ discarded' = Remembered(state, discarded)
           /\ ignored' = Ignored("draw_test_circle", state, ignored)
    /\ UNCHANGED mvars

CallDrawAnimatedCircle ==
    /\ \E time \in Times :
        /\ state' = draw_animated_circle(state, time)
        /\ call' = Call("draw_animated_circle", None, None, Some(time), NoPlatform, Ok, None, <<>>)
        /\ pre' = state
        /\ frames' = frames
        /\ discarded' = Remembered(state, discarded)
        /\ ignored' = Ignored("draw_animated_circle", state, ignored)
    /\ UNCHANGED mvars

Next ==
    \/ CallInitSkia
    \/ CallInit
    \/ CallRender
    \/ CallFlush
    \/ CallCleanup
    \/ CallPushTransform
    \/ CallPopTransform
    \/ CallCurrentTransform
    \/ CallDrawTestCircle
    \/ CallDrawAnimatedCircle

Spec == Init /\ [][Next]_vars

(* ------------------------------------------------------------------------ *)
(* The message protocol: a sender puts RendererMessages on an ordered       *)
(* channel and the rendering thread, the only owner of the renderer, takes  *)
(* them one at a time.                                                      *)
(* ------------------------------------------------------------------------ *)

\* enum RendererMessage
MsgInit(width, height) == [kind |-> "Init", dims |-> Some(<<width, height>>)]
MsgBeginFrame == [kind |-> "BeginFrame", dims |-> None]
MsgEndFrame == [kind |-> "EndFrame", dims |-> None]
MsgRender == [kind |-> "Render", dims |-> None]
MsgShutdown == [kind |-> "Shutdown", dims |-> None]

\* The messages a sender sends.
Messages == {MsgInit(640, 480), MsgBeginFrame, MsgEndFrame, MsgRender, MsgShutdown}

\* The renderer and its call history.
rvars == <<state, call, pre, frames, discarded, ignored>>

\* The message the rendering thread takes next.
NextMessage(q) == Head(q)

\* The rendering thread is alive and its next message is of the given kind.
Takes(kind) ==
    /\ running
    /\ queue # <<>>
    /\ NextMessage(queue).msg.kind = kind

\* The message is taken off the channel and recorded as processed.
Taken ==
    /\ handled' = Append(handled, NextMessage(queue))
    /\ queue' = Tail(queue)
    /\ sent' = sent

\* A message is sent; it carries its position in the order of sending.
Send ==
    /\ sent < MaxSent
    /\ \E m \in Messages : queue' = Append(queue, [n |-> sent + 1, msg |-> m])
    /\ sent' = sent + 1
    /\ UNCHANGED <<handled, running>>
    /\ UNCHANGED rvars

ProcessInit ==
    /\ Takes("Init")
    /\ InitSkiaStep(Unwrap(NextMessage(queue).msg.dims))
    /\ Taken
    /\ running' = running

ProcessBeginFrame ==
    /\ Takes("BeginFrame")
    /\ UNCHANGED rvars
    /\ Taken
    /\ running' = running

ProcessRender ==
    /\ Takes("Render")
    /\ RenderStep
    /\ Taken
    /\ running' = running

ProcessEndFrame ==
    /\ Takes("EndFrame")
    /\ FlushStep
    /\ Taken
    /\ running' = running

ProcessShutdown ==
    /\ Takes("Shutdown")
    /\ CleanupStep
    /\ Taken
    /\ running' = FALSE

NextMsg ==
    \/ Send
    \/ ProcessInit
    \/ ProcessBeginFrame
    \/ ProcessRender
    \/ ProcessEndFrame
    \/ ProcessShutdown

SpecMsg == Init /\ [][NextMsg]_vars

(* ------------------------------------------------------------------------ *)
(* Properties                                                               *)
(* ------------------------------------------------------------------------ *)

Stack(s) == Unwrap(s).transform_stack

InitOps == {"init_skia", "init", "render"}

\* A present state holds a context, a surface and a non-empty stack.
Complete(s) ==
    /\ s.gr_context.interface = "native_gl"
    /\ s.surface.width = s.width
    /\ s.surface.height = s.height
    /\ s.surface.origin = "BottomLeft"
    /\ Len(s.transform_stack) >= 1

\* C1: initialization is all-or-nothing.  When init_skia, init or render
\* returns an error the renderer state is exactly what it was when the call
\* was entered (absent stays absent, present keeps width, height and
\* transform stack), and a state that is present always holds context,
\* surface and a non-empty transform stack together.
C1_AllOrNothing ==
    /\ (call.op \in InitOps /\ IsErr(call.result)) => state = pre
    /\ IsSome(state) => Complete(Unwrap(state))

\* A failed init_skia on a renderer that had non-default dimensions and a
\* pushed transform, which it still has.
C1_Witness ==
    /\ call.op = "init_skia"
    /\ IsErr(call.result)
    /\ IsSome(state)
    /\ Unwrap(state).width # DefaultWidth
    /\ Len(Stack(state)) > 1

\* C2: in every reachable state, whenever the renderer state is present its
\* transform stack has depth at least 1.
C2_StackDepthAtLeastOne == IsSome(state) => Len(Stack(state)) >= 1

\* pop_transform was called with only the base frame on the stack.
C2_Witness ==
    /\ call.op = "pop_transform"
    /\ IsSome(pre)
    /\ Len(Stack(pre)) = 1
    /\ IsSome(state)
    /\ Len(Stack(state)) = 1

\* C3: cleanup returns success from every state and leaves the state absent;
\* the next init or render on the absent state runs the initialization
\* protocol again and, on success, produces a state with the default
\* dimensions 800x600 and a transform stack holding only the identity,
\* whatever was held before the cleanup.
C3_CleanupThenFresh ==
    /\ call.op = "cleanup" => IsOk(call.result) /\ IsNone(state)
    /\ (call.op \in {"init", "render"} /\ IsNone(pre)) =>
          /\ call.steps # <<>>
          /\ IsOk(call.result) =>
                /\ IsSome(state)
                /\ Unwrap(state).width = 800
                /\ Unwrap(state).height = 600
                /\ Stack(state) = <<new_identity>>

\* init or render succeeded after a cleanup that dropped a state with
\* non-default dimensions and pushed transforms.
C3_Witness ==
    /\ call.op \in {"init", "render"}
    /\ IsNone(pre)
    /\ IsOk(call.result)
    /\ IsSome(discarded)
    /\ Unwrap(discarded).width # 800
    /\ Unwrap(discarded).depth > 1
    /\ IsSome(state)

NotInitialized == Err(CrateRendererError("Renderer error: Renderer not initialized"))

\* C4: render on an absent state performs lazy initialization with the
\* default dimensions 800x600 and, when every graphics-platform step
\* succeeds, returns success with the state present; render never returns
\* the "Renderer not initialized" error.
C4_RenderLazyInit ==
    call.op = "render" =>
        /\ call.result # NotInitialized
        /\ IsNone(pre) =>
              /\ Len(call.platform) >= 1
              /\ call.platform = <<TRUE, TRUE, TRUE>> =>
                    /\ IsOk(call.result)
                    /\ IsSome(state)
                    /\ Unwrap(state).width = 800
                    /\ Unwrap(state).height = 600

\* render was called on an absent state, after a cleanup, and succeeded.
C4_Witness ==
    /\ call.op = "render"
    /\ IsNone(pre)
    /\ call.platform = <<TRUE, TRUE, TRUE>>
    /\ IsOk(call.result)
    /\ IsSome(state)

\* C5: init on a present state returns success, runs no initialization step
\* and leaves width, height and the transform stack unchanged.
C5_InitIdempotent ==
    (call.op = "init" /\ IsSome(pre)) =>
        /\ IsOk(call.result)
        /\ call.steps = <<>>
        /\ IsSome(state)
        /\ Unwrap(state).width = Unwrap(pre).width
        /\ Unwrap(state).height = Unwrap(pre).height
        /\ Stack(state) = Stack(pre)

\* init was called on a state created by init_skia with non-default
\* dimensions and with a transform pushed.
C5_Witness ==
    /\ call.op = "init"
    /\ IsSome(pre)
    /\ Unwrap(pre).width # DefaultWidth
    /\ Len(Stack(pre)) > 1
    /\ state = pre

\* C6: a successful initialization with positive (width, height) yields a
\* state whose width and height equal the inputs and whose transform stack
\* is exactly one identity transform; a state that was present is replaced
\* entirely (new surface, previous dimensions and pushed transforms gone).
C6_InitRecordsDimensions ==
    (/\ call.op = "init_skia"
     /\ IsOk(call.result)
     /\ Unwrap(call.dims)[1] > 0
     /\ Unwrap(call.dims)[2] > 0) =>
        /\ IsSome(state)
        /\ Unwrap(state).width = Unwrap(call.dims)[1]
        /\ Unwrap(state).height = Unwrap(call.dims)[2]
        /\ Unwrap(state).surface.width = Unwrap(call.dims)[1]
        /\ Unwrap(state).surface.height = Unwrap(call.dims)[2]
        /\ Unwrap(state).surface.canvas = BlankCanvas
        /\ Stack(state) = <<new_identity>>

\* init_skia succeeded on a renderer that held other dimensions and pushed
\* transforms.
C6_Witness ==
    /\ call.op = "init_skia"
    /\ IsOk(call.result)
    /\ Unwrap(call.dims)[1] > 0
    /\ Unwrap(call.dims)[2] > 0
    /\ IsSome(pre)
    /\ Len(Stack(pre)) > 1
    /\ Unwrap(pre).width # Unwrap(call.dims)[1]
    /\ IsSome(state)

\* C7: flush returns success in every state; on an absent state it is a
\* no-op that leaves the state absent and runs no initialization; on a
\* present state it leaves width, height and the transform stack unchanged.
C7_FlushNeverFails ==
    call.op = "flush" =>
        /\ IsOk(call.result)
        /\ call.steps = <<>>
        /\ IsNone(pre) => IsNone(state)
        /\ IsSome(pre) =>
              /\ IsSome(state)
              /\ Unwrap(state).width = Unwrap(pre).width
              /\ Unwrap(state).height = Unwrap(pre).height
              /\ Stack(state) = Stack(pre)

\* flush was called after a cleanup.
C7_Witness ==
    /\ call.op = "flush"
    /\ IsNone(pre)
    /\ IsSome(discarded)
    /\ IsNone(state)

RECURSIVE Product(_)
\* T1 o T2 o ... o Tn o identity for the transforms of the frames seq.
Product(seq) ==
    IF seq = <<>> THEN new_identity ELSE MatMul(Head(seq).t, Product(Tail(seq)))

\* C8: push_transform(T) on a present state increases the stack depth by
\* exactly one, leaves every element below the new top unchanged, and the
\* new top is the previous top times T; after pushes T1..Tn on a freshly
\* initialized renderer the top of the stack is T1 o T2 o ... o Tn o identity.
C8_PushComposes ==
    /\ (call.op = "push_transform" /\ IsSome(pre)) =>
          /\ IsSome(state)
          /\ Len(Stack(state)) = Len(Stack(pre)) + 1
          /\ Front(Stack(state)) = Stack(pre)
          /\ Last(Stack(state)) = MatMul(Last(Stack(pre)), Unwrap(call.transform))
    /\ IsSome(state) => Last(Stack(state)) = Product(frames)

\* Two different transforms were pushed one after the other.
C8_Witness ==
    /\ call.op = "push_transform"
    /\ IsSome(state)
    /\ Len(frames) = 2
    /\ frames[1].t # frames[2].t
    /\ Len(Stack(state)) = 3

\* C9: push and pop nest as a stack.  A pop that matches a push restores
\* the transform stack exactly as it was before that push, so n pushes
\* followed by n pops restore the stack; when no push is outstanding on a
\* renderer the stack is the single identity.
C9_PushPopRestores ==
    [][/\ (call'.op = "pop_transform" /\ IsSome(state) /\ frames # <<>>) =>
              /\ IsSome(state')
              /\ Stack(state') = Last(frames).before
       /\ (IsSome(state') /\ frames' = <<>>) => Stack(state') = <<new_identity>>]_vars

\* The last of the pushed transforms was popped and the stack is back at
\* the identity alone.
C9_Witness ==
    /\ call.op = "pop_transform"
    /\ IsSome(pre)
    /\ Len(Stack(pre)) = 2
    /\ IsSome(state)
    /\ Stack(state) = <<new_identity>>
    /\ frames = <<>>

\* C10: pop_transform removes exactly the top element when the depth is
\* greater than 1 and changes nothing when the depth is 1.
C10_PopKeepsBase ==
    (call.op = "pop_transform" /\ IsSome(pre)) =>
        /\ IsSome(state)
        /\ Stack(state) = IF Len(Stack(pre)) > 1 THEN Front(Stack(pre)) ELSE Stack(pre)
        /\ Unwrap(state) = [Unwrap(pre) EXCEPT !.transform_stack = Stack(state)]

\* pop_transform was called on a stack of depth 1, which it left alone.
C10_Witness ==
    /\ call.op = "pop_transform"
    /\ IsSome(pre)
    /\ Stack(pre) = <<new_identity>>
    /\ frames = <<>>
    /\ state = pre

\* Some step of the initialization the call ran was refused by the platform.
InitFailed == \E i \in 1..Len(call.platform) : ~call.platform[i]

\* C11: the initialization steps run in the fixed order GL interface, GPU
\* context, render target, surface, and the first failing step ends the
\* call with its own error: an interface failure gives
\* GlError("Failed to create GL interface") with no context or surface
\* attempted, a context failure gives SkiaError("Failed to create GPU
\* context") with no surface attempted, a surface failure gives
\* SkiaError("Failed to create surface"); no step is run twice.
C11_StepsShortCircuit ==
    (call.op \in InitOps /\ call.steps # <<>>) =>
        \/ /\ call.platform = <<FALSE>>
           /\ call.steps = <<"interface">>
           /\ call.op = "init_skia" =>
                 call.result = Err(GlError("Failed to create GL interface"))
        \/ /\ call.platform = <<TRUE, FALSE>>
           /\ call.steps = <<"interface", "context">>
           /\ call.op = "init_skia" =>
                 call.result = Err(SkiaError("Failed to create GPU context"))
        \/ /\ call.platform = <<TRUE, TRUE, FALSE>>
           /\ call.steps =
                 <<"interface", "context", "framebuffer_info", "render_target", "surface">>
           /\ call.op = "init_skia" =>
                 call.result = Err(SkiaError("Failed to create surface"))
        \/ /\ call.platform = <<TRUE, TRUE, TRUE>>
           /\ call.steps =
                 <<"interface", "context", "framebuffer_info", "render_target", "surface">>
           /\ IsOk(call.result)

\* init_skia stopped at the GPU context: the surface was never attempted.
C11_Witness ==
    /\ call.op = "init_skia"
    /\ call.platform = <<TRUE, FALSE>>
    /\ call.steps = <<"interface", "context">>
    /\ IsErr(call.result)

\* C12: an initialization failure is never swallowed and prevents drawing.
\* When init_skia fails inside init or render the call returns the
\* framework Renderer error carrying the formatted message of that failure
\* (so render did not go on to draw), the state stays absent, and a later
\* flush or draw on the absent state leaves it absent.
C12_InitFailureSurfaced ==
    /\ (call.op \in {"init", "render"} /\ InitFailed) =>
          /\ IsErr(call.result)
          /\ Unwrap(call.result).kind = "Renderer"
          /\ Unwrap(call.result).msg =
                IF call.platform = <<FALSE>>
                THEN "OpenGL error: Failed to create GL interface"
                ELSE IF call.platform = <<TRUE, FALSE>>
                THEN "Skia error: Failed to create GPU context"
                ELSE "Skia error: Failed to create surface"
          /\ IsNone(pre)
          /\ IsNone(state)
    /\ (call.op \in {"flush", "draw_test_circle", "draw_animated_circle"} /\ IsNone(pre)) =>
          IsNone(state)

\* render failed at surface creation.
C12_Witness ==
    /\ call.op = "render"
    /\ call.platform = <<TRUE, TRUE, FALSE>>
    /\ IsErr(call.result)
    /\ IsNone(state)

\* C13: the renderer state is never constructed with a non-positive
\* dimension: whenever the state is present, width > 0 and height > 0.
C13_DimensionsPositive ==
    IsSome(state) => Unwrap(state).width > 0 /\ Unwrap(state).height > 0

\* C15: current_transform returns the top of the transform stack when the
\* state is present and the identity when it is absent, and changes neither
\* the stack nor the presence of the state.
C15_CurrentTransformIsTop ==
    call.op = "current_transform" =>
        /\ call.value = Some(IF IsSome(pre) THEN Last(Stack(pre)) ELSE new_identity)
        /\ state = pre

\* current_transform was asked with two transforms pushed, the top being
\* neither the base nor the element below it.
C15_Witness ==
    /\ call.op = "current_transform"
    /\ IsSome(state)
    /\ Len(Stack(state)) = 3
    /\ Stack(state)[3] # Stack(state)[2]
    /\ Stack(state)[3] # Stack(state)[1]
    /\ call.value = Some(Stack(state)[3])

\* round(c * 255) for the channel c = sin(x) * 0.5 + 0.5: nearest integer.
RoundedByte(x) == ((SinMicro(x) + 1000000) * 255 + 1000000) \div 2000000

\* C16: in the animated circle each colour channel c = sin(time + phase) *
\* 0.5 + 0.5 is mapped to round(c * 255), with alpha 255; a channel of
\* exactly 0.5 (R at time = 0) maps to 128.
C16_ChannelRounded ==
    (call.op = "draw_animated_circle" /\ IsSome(state)) =>
        LET t == Unwrap(call.time)
        IN  \A c \in Unwrap(state).surface.canvas.circles :
                c.paint = <<"ARGB", 255, RoundedByte(t), RoundedByte(t + 2), RoundedByte(t + 4)>>

\* C17: draw_test_circle called while the state is absent returns
\* GeneralError("Renderer not initialized"), runs no initialization and
\* leaves the state absent; while the state is present it returns success.
C17_DrawTestCircleNeedsState ==
    call.op = "draw_test_circle" =>
        /\ call.steps = <<>>
        /\ IsNone(pre) =>
              /\ call.result = Err(GeneralError("Renderer not initialized"))
              /\ IsNone(state)
        /\ IsSome(pre) =>
              /\ IsOk(call.result)
              /\ IsSome(state)

\* draw_test_circle was called on an absent state and refused.
C17_Witness ==
    /\ call.op = "draw_test_circle"
    /\ IsNone(pre)
    /\ IsErr(call.result)
    /\ IsNone(state)

DrawOps == {"render", "flush", "draw_test_circle", "draw_animated_circle"}

\* C19: on a present state render, flush, draw_test_circle and
\* draw_animated_circle leave width, height and the transform stack
\* unchanged; the state goes from absent to present only by a successful
\* init, render or init_skia and from present to absent only by cleanup.
C19_DrawsKeepGeometry ==
    /\ (call.op \in DrawOps /\ IsSome(pre)) =>
          /\ IsSome(state)
          /\ Unwrap(state).width = Unwrap(pre).width
          /\ Unwrap(state).height = Unwrap(pre).height
          /\ Stack(state) = Stack(pre)
    /\ (IsNone(pre) /\ IsSome(state)) => (call.op \in InitOps /\ IsOk(call.result))
    /\ (IsSome(pre) /\ IsNone(state)) => call.op = "cleanup"

\* draw_animated_circle painted on a state with non-default dimensions and
\* a pushed transform.
C19_Witness ==
    /\ call.op = "draw_animated_circle"
    /\ IsSome(pre)
    /\ Unwrap(pre).width # DefaultWidth
    /\ Len(Stack(pre)) > 1
    /\ IsSome(state)
    /\ Unwrap(state).surface.canvas # Unwrap(pre).surface.canvas

\* C18: push_transform, pop_transform and draw_animated_circle called while
\* the state is absent are silent no-ops that create no state, and a
\* transform pushed while absent is not remembered: after a later successful
\* initialization the stack is exactly one identity.
C18_AbsentNoOps ==
    /\ (call.op \in {"push_transform", "pop_transform", "draw_animated_circle"}
          /\ IsNone(pre)) =>
             /\ IsNone(state)
             /\ IsOk(call.result)
             /\ call.steps = <<>>
    /\ (ignored /\ IsSome(state)) => Stack(state) = <<new_identity>>

\* The renderer was initialized after a transform had been pushed on the
\* absent state.
C18_Witness ==
    /\ ignored
    /\ IsSome(state)
    /\ IsNone(pre)
    /\ call.op \in InitOps
    /\ IsOk(call.result)

\* The kinds of the messages processed so far, in order.
HandledKinds == [i \in 1..Len(handled) |-> handled[i].msg.kind]

\* C14: messages are processed strictly in send order and Shutdown is
\* terminal: everything sent before Shutdown is processed before the thread
\* stops, nothing sent after it is ever processed, and the renderer state
\* is torn down on Shutdown.
C14_OrderedAndTerminal ==
    /\ \A i \in 1..Len(handled) : handled[i].n = i
    /\ \A i \in 1..Len(queue) : queue[i].n = Len(handled) + i
    /\ \A i \in 1..Len(handled) :
          handled[i].msg.kind = "Shutdown" =>
             /\ i = Len(handled)
             /\ ~running
             /\ IsNone(state)
    /\ ~running => (handled # <<>> /\ Last(handled).msg.kind = "Shutdown")

\* Init, BeginFrame, Render, EndFrame and Shutdown were sent and processed
\* in that order with the renderer initialized, and a message sent after
\* Shutdown is still on the channel.
C14_Witness ==
    /\ HandledKinds = <<"Init", "BeginFrame", "Render", "EndFrame", "Shutdown">>
    /\ ~running
    /\ queue # <<>>
    /\ sent > Len(handled)
    /\ IsSome(pre)
    /\ IsNone(state)

====
